---------------------------- MODULE Spec2Model ----------------------------
(***************************************************************************)
(* Model of summarize.py: the reaction handler of a Slack bot that fetches *)
(* a thread, anonymizes its authors, asks a hosted model for a summary and *)
(* writes transcript and summary to conversation_summary.txt.              *)
(*                                                                         *)
(* Text is modelled as a sequence of one-character strings, so that        *)
(* str.strip, re.sub, the f-strings and "\n".join are computed, character  *)
(* by character, as Python computes them.                                  *)
(*                                                                         *)
(* The list literal of summarize_with_bedrock (lines 60-67) lacks the      *)
(* comma between its two entries; the model reads it as the two-entry list *)
(* it was written to be.                                                   *)
(***************************************************************************)
EXTENDS Integers, Sequences, FiniteSets, TLC

VARIABLES
    pc,                \* position of the control flow
    event,             \* handle_reaction: the inbound event
    messages,          \* handle_reaction / anonymize_users: the thread
    user_mapping,      \* anonymize_users: user id -> label, at return
    cleaned_messages,  \* anonymize_users: the lines, at return
    anonymized_text,   \* handle_reaction: the transcript
    summary,           \* handle_reaction: the summary
    file,              \* conversation_summary.txt
    calls,             \* the external and internal calls of this invocation, in order
    requests,          \* the conversation contents sent to the model in this invocation
    inferOutcome,      \* what the inference call of this invocation did
    fetchOutcome,      \* what the thread-fetch call of this invocation did
    result             \* how the invocation ended: "returned", or "raised" by an exception

vars == <<pc, event, messages, user_mapping, cleaned_messages, anonymized_text,
          summary, file, calls, requests, inferOutcome, fetchOutcome, result>>

(***************************************************************************)
(* Bounds of the model.                                                    *)
(***************************************************************************)
MaxTextLen == 6     \* longest text of the one-message specification
MaxMsgs == 3        \* longest thread of the anonymizer specification
MaxThread == 2      \* longest generated thread of the handler specification

(***************************************************************************)
(* Characters.                                                             *)
(***************************************************************************)
Upper == {"A", "B", "C", "D", "E", "F", "G", "H", "I", "J", "K", "L", "M",
          "N", "O", "P", "Q", "R", "S", "T", "U", "V", "W", "X", "Y", "Z"}
Lower == {"a", "b", "c", "d", "e", "f", "g", "h", "i", "j", "k", "l", "m",
          "n", "o", "p", "q", "r", "s", "t", "u", "v", "w", "x", "y", "z"}
DigitChars == <<"0", "1", "2", "3", "4", "5", "6", "7", "8", "9">>
Digit == {DigitChars[i] : i \in 1..10}

\* str.strip() without argument strips whitespace
Whitespace == {" ", "\t", "\n", "\r"}

\* \w of the re module
WordChar == Upper \cup Lower \cup Digit \cup {"_"}

(***************************************************************************)
(* dict.get(key, default)                                                  *)
(***************************************************************************)
Get(d, key, default) == IF key \in DOMAIN d THEN d[key] ELSE default

(***************************************************************************)
(* text.strip()                                                            *)
(***************************************************************************)
RECURSIVE LStrip(_)
LStrip(s) ==
    IF s # <<>> /\ Head(s) \in Whitespace THEN LStrip(Tail(s)) ELSE s

RECURSIVE RStrip(_)
RStrip(s) ==
    IF s # <<>> /\ s[Len(s)] \in Whitespace
    THEN RStrip(SubSeq(s, 1, Len(s) - 1))
    ELSE s

Strip(s) == RStrip(LStrip(s))

(***************************************************************************)
(* re.sub(r"<@U\w+>", "", text)                                            *)
(***************************************************************************)
\* the length of the longest run of word characters of s that starts at i
RECURSIVE WordRun(_, _)
WordRun(s, i) ==
    IF i <= Len(s) /\ s[i] \in WordChar THEN 1 + WordRun(s, i + 1) ELSE 0

\* The index after the match of <@U\w+> that starts at i, or 0 when there is
\* none. \w+ is greedy and ">" is no word character, so the pattern matches
\* exactly when the longest run of word characters after "<@U" is not empty
\* and is followed by ">".
MatchMention(s, i) ==
    LET n == WordRun(s, i + 3)
    IN  IF /\ i + 2 <= Len(s)
           /\ s[i] = "<" /\ s[i + 1] = "@" /\ s[i + 2] = "U"
           /\ n >= 1
           /\ i + 3 + n <= Len(s)
           /\ s[i + 3 + n] = ">"
        THEN i + 3 + n + 1
        ELSE 0

\* the leftmost non-overlapping matches are replaced by the empty string
RECURSIVE SubFrom(_, _)
SubFrom(s, i) ==
    IF i > Len(s) THEN <<>>
    ELSE LET e == MatchMention(s, i)
         IN  IF e > 0 THEN SubFrom(s, e) ELSE <<s[i]>> \o SubFrom(s, i + 1)

RemoveMentions(s) == SubFrom(s, 1)

(***************************************************************************)
(* f"User {user_counter}"                                                  *)
(***************************************************************************)
RECURSIVE ToDecimal(_)
ToDecimal(n) ==
    IF n < 10 THEN <<DigitChars[n + 1]>>
    ELSE ToDecimal(n \div 10) \o <<DigitChars[(n % 10) + 1]>>

UserLabel(user_counter) == <<"U", "s", "e", "r", " ">> \o ToDecimal(user_counter)

(***************************************************************************)
(* "\n".join(cleaned_messages)                                             *)
(***************************************************************************)
RECURSIVE Join(_)
Join(lines) ==
    IF lines = <<>> THEN <<>>
    ELSE IF Len(lines) = 1 THEN lines[1]
    ELSE lines[1] \o <<"\n">> \o Join(Tail(lines))

(***************************************************************************)
(* anonymize_users                                                         *)
(***************************************************************************)
EmptyMapping == [u \in {} |-> <<>>]

\* lines 37-40
AnonStart ==
    [user_mapping |-> EmptyMapping, user_counter |-> 1, cleaned_messages |-> <<>>]

\* line 42
UserIdOf(msg) == Get(msg, "user", "Unknown")

\* line 43
TextOf(msg) == Strip(Get(msg, "text", <<>>))

\* lines 45-47, broken: the counter is not advanced
MapUserSameCounter(st, user_id) ==
    IF user_id \notin DOMAIN st.user_mapping
    THEN [st EXCEPT !.user_mapping = (user_id :> UserLabel(st.user_counter)) @@ @]
    ELSE st

\* lines 45-47
MapUser(st, user_id) ==
    IF user_id \notin DOMAIN st.user_mapping
    THEN [st EXCEPT !.user_mapping = (user_id :> UserLabel(st.user_counter)) @@ @,
                    !.user_counter = @ + 1]
    ELSE st

\* lines 43 and 50: the text of the line
CleanText(msg) == RemoveMentions(TextOf(msg))

\* line 53
FormatLine(anonymized_user, text) == anonymized_user \o <<":", " ">> \o text

\* lines 42-53: one iteration of the loop
LoopBody(st, msg) ==
    LET user_id == UserIdOf(msg)
        st1 == MapUser(st, user_id)
        anonymized_user == st1.user_mapping[user_id]
    IN  [st1 EXCEPT !.cleaned_messages =
                        Append(@, FormatLine(anonymized_user, CleanText(msg)))]

\* lines 41-53: the loop, from message i on
RECURSIVE AnonLoop(_, _, _)
AnonLoop(st, msgs, i) ==
    IF i > Len(msgs) THEN st ELSE AnonLoop(LoopBody(st, msgs[i]), msgs, i + 1)

\* the locals of anonymize_users at its return
AnonLocals(msgs) == AnonLoop(AnonStart, msgs, 1)

\* line 55
anonymize_users(msgs) == Join(AnonLocals(msgs).cleaned_messages)


(***************************************************************************)
(* summarize_with_bedrock                                                  *)
(***************************************************************************)
MODEL_ID == "anthropic.claude-v2"
MaxTokens == 500
ErrorSummary ==
    <<"E", "r", "r", "o", "r", " ", "g", "e", "n", "e", "r", "a", "t", "i", "n", "g",
      " ", "s", "u", "m", "m", "a", "r", "y", ".">>
NoSummary ==
    <<"N", "o", " ", "s", "u", "m", "m", "a", "r", "y", " ", "a", "v", "a", "i", "l",
      "a", "b", "l", "e", ".">>

EmptyDict == [k \in {} |-> <<>>]

\* line 66: the content of the message that carries the conversation
ConversationContent(text) ==
    <<"C", "o", "n", "v", "e", "r", "s", "a", "t", "i", "o", "n", ":", "\n">> \o text

\* lines 70-77: the request handed to bedrock.invoke_model
InferenceRequest(text) ==
    [modelId |-> MODEL_ID,
     conversation |-> ConversationContent(text),
     max_tokens |-> MaxTokens,
     anthropic_version |-> "bedrock-2023-05-31"]

\* What the model host can answer. kind "raise": invoke_model raises (network
\* or endpoint error); "bad_json": the body is no JSON, json.loads raises;
\* "non_object": the body parses to a JSON value that is no object, so
\* result.get raises; "object": the body parses to the JSON object `body`.
Contents == { <<"o", "k">>, ErrorSummary }
Replies ==
    {[kind |-> "raise", body |-> EmptyDict], [kind |-> "bad_json", body |-> EmptyDict],
     [kind |-> "non_object", body |-> EmptyDict], [kind |-> "object", body |-> EmptyDict]}
    \cup {[kind |-> "object", body |-> [content |-> c]] : c \in Contents}

\* lines 69-83, broken: an object without content is reported as an error
summarize_strict(text, reply) ==
    IF reply.kind \in {"raise", "bad_json", "non_object"} \/ "content" \notin DOMAIN reply.body
    THEN ErrorSummary
    ELSE reply.body["content"]

\* lines 69-83: the value returned when the model host answers `reply`
summarize_with_bedrock(text, reply) ==
    IF reply.kind \in {"raise", "bad_json", "non_object"}
    THEN ErrorSummary                          \* lines 81-83
    ELSE Get(reply.body, "content", NoSummary) \* line 80

(***************************************************************************)
(* handle_reaction                                                         *)
(***************************************************************************)
SPECIFIC_EMOJI == "bulb"
None == "<None>"

Reactions == {SPECIFIC_EMOJI, "thumbsup"}
Items == {[channel |-> "C1", ts |-> "1.0"], [channel |-> "C1"], [ts |-> "1.0"], EmptyDict}
Events ==
    {r @@ i : r \in {EmptyDict} \cup {[reaction |-> x] : x \in Reactions},
              i \in {EmptyDict} \cup {[item |-> x] : x \in Items}}

\* the thread of the scenario of the specification
ScenarioThread ==
    << [user |-> "U1",
        text |-> <<"<", "@", "U", "2", ">", " ", "h", "e", "l", "p", ",", " ", "b", "u",
                   "i", "l", "d", " ", "b", "r", "o", "k", "e">>],
       [user |-> "U2",
        text |-> <<"f", "i", "x", "e", "d", " ", "b", "y", " ", "r", "e", "v", "e", "r",
                   "t", "i", "n", "g", " ", "c", "o", "m", "m", "i", "t">>] >>

\* sequences of at most n elements of S
SeqsUpTo(S, n) == UNION {[1..k -> S] : k \in 0..n}

\* the threads the chat platform returns in the handler specification
ThreadMsgs ==
    {[user |-> "U1", text |-> <<"h", "i", " ", "<", "@", "U", "2", ">">>],
     [user |-> "U2", text |-> <<"o", "k">>],
     EmptyDict}
Threads == SeqsUpTo(ThreadMsgs, MaxThread) \cup {ScenarioThread}

\* what conversations_replies can do: raise, or return a response
FetchOutcomes ==
    {[raises |-> TRUE, response |-> EmptyDict], [raises |-> FALSE, response |-> EmptyDict]}
    \cup {[raises |-> FALSE, response |-> [messages |-> m]] : m \in Threads}

\* line 117, broken: the transcript is left out
FileContentSummaryOnly(text, summ) ==
    <<"O", "r", "i", "g", "i", "n", "a", "l", " ", "C", "o", "n", "v", "e", "r", "s",
      "a", "t", "i", "o", "n", ":", "\n">>
    \o <<"\n", "\n", "S", "u", "m", "m", "a", "r", "y", ":", "\n">> \o summ

\* line 117: the text written to the file
FileContent(text, summ) ==
    <<"O", "r", "i", "g", "i", "n", "a", "l", " ", "C", "o", "n", "v", "e", "r", "s",
      "a", "t", "i", "o", "n", ":", "\n">> \o text
    \o <<"\n", "\n", "S", "u", "m", "m", "a", "r", "y", ":", "\n">> \o summ

NoFile == [exists |-> FALSE, content |-> <<>>]
NoReply == [kind |-> "none", body |-> EmptyDict]
NoFetch == [raises |-> FALSE, response |-> EmptyDict]

\* open(..., "w") and f.write, broken: the text is appended to the file
WriteAppend(old, text) == [exists |-> TRUE, content |-> old.content \o text]

\* lines 116-117: open(..., "w") truncates, f.write writes the text
WriteTruncate(old, text) == [exists |-> TRUE, content |-> text]

Init ==
    /\ pc = "idle"
    /\ event = EmptyDict
    /\ messages = <<>>
    /\ user_mapping = EmptyMapping
    /\ cleaned_messages = <<>>
    /\ anonymized_text = <<>>
    /\ summary = <<>>
    /\ file = NoFile
    /\ calls = <<>>
    /\ requests = <<>>
    /\ inferOutcome = NoReply
    /\ fetchOutcome = NoFetch
    /\ result = "none"

\* the handler ends: it returns, or an exception leaves it
Leave(how) ==
    /\ pc' = "idle"
    /\ result' = how

\* the listener dispatches a reaction_added event to handle_reaction
ReactionAdded(e) ==
    /\ pc = "idle"
    /\ pc' = "L90"
    /\ event' = e
    /\ messages' = <<>>
    /\ user_mapping' = EmptyMapping
    /\ cleaned_messages' = <<>>
    /\ anonymized_text' = <<>>
    /\ summary' = <<>>
    /\ calls' = <<>>
    /\ requests' = <<>>
    /\ inferOutcome' = NoReply
    /\ fetchOutcome' = NoFetch
    /\ result' = "running"
    /\ UNCHANGED file

\* line 92, broken: every reaction is taken for the target
IsTargetAlways(reaction) == TRUE

\* line 92
IsTarget(reaction) == reaction = SPECIFIC_EMOJI

\* lines 90-94
FilterEmoji ==
    /\ pc = "L90"
    /\ LET reaction == Get(event, "reaction", None)
       IN  IF ~IsTarget(reaction) THEN Leave("returned") ELSE pc' = "L96" /\ result' = result
    /\ UNCHANGED <<event, messages, user_mapping, cleaned_messages, anonymized_text,
                   summary, file, calls, requests, inferOutcome, fetchOutcome>>

\* lines 96-97: event["item"]["channel"], event["item"]["ts"]; a missing key raises KeyError
ReadItem ==
    /\ pc = "L96"
    /\ IF "item" \in DOMAIN event /\ {"channel", "ts"} \subseteq DOMAIN event["item"]
       THEN pc' = "L102" /\ result' = result
       ELSE Leave("raised")
    /\ UNCHANGED <<event, messages, user_mapping, cleaned_messages, anonymized_text,
                   summary, file, calls, requests, inferOutcome, fetchOutcome>>

\* lines 102-103
FetchThread(o) ==
    /\ pc = "L102"
    /\ calls' = Append(calls, "fetch")
    /\ fetchOutcome' = o
    /\ IF o.raises
       THEN Leave("raised") /\ messages' = messages
       ELSE /\ messages' = Get(o.response, "messages", <<>>)
            /\ pc' = "L105"
            /\ result' = result
    /\ UNCHANGED <<event, user_mapping, cleaned_messages, anonymized_text, summary,
                   file, requests, inferOutcome>>

\* line 105, broken: the thread is never taken for empty
IsEmptyNever(msgs) == FALSE

\* line 105: not messages
IsEmpty(msgs) == msgs = <<>>

\* lines 105-107
CheckEmpty ==
    /\ pc = "L105"
    /\ IF IsEmpty(messages) THEN Leave("returned") ELSE pc' = "L110" /\ result' = result
    /\ UNCHANGED <<event, messages, user_mapping, cleaned_messages, anonymized_text,
                   summary, file, calls, requests, inferOutcome, fetchOutcome>>

\* line 110
Anonymize ==
    /\ pc = "L110"
    /\ user_mapping' = AnonLocals(messages).user_mapping
    /\ cleaned_messages' = AnonLocals(messages).cleaned_messages
    /\ anonymized_text' = anonymize_users(messages)
    /\ calls' = Append(calls, "anonymize")
    /\ pc' = "L113"
    /\ UNCHANGED <<event, messages, summary, file, requests, inferOutcome, fetchOutcome,
                   result>>

\* line 113, broken: a failed request is sent a second time
SendTwice(sent, text) == sent \o <<InferenceRequest(text), InferenceRequest(text)>>

\* lines 70-77: one request is sent
SendOnce(sent, text) == Append(sent, InferenceRequest(text))

\* line 113
Summarize(reply) ==
    /\ pc = "L113"
    /\ requests' = SendOnce(requests, anonymized_text)
    /\ inferOutcome' = reply
    /\ summary' = summarize_with_bedrock(anonymized_text, reply)
    /\ calls' = Append(calls, "infer")
    /\ pc' = "L116"
    /\ UNCHANGED <<event, messages, user_mapping, cleaned_messages, anonymized_text,
                   file, fetchOutcome, result>>

\* lines 116-119; open() can raise OSError, which leaves the file as it was
WriteFile(opens) ==
    /\ pc = "L116"
    /\ calls' = Append(calls, "write")
    /\ IF opens
       THEN /\ file' = WriteTruncate(file, FileContent(anonymized_text, summary))
            /\ Leave("returned")
       ELSE /\ file' = file
            /\ Leave("raised")
    /\ UNCHANGED <<event, messages, user_mapping, cleaned_messages, anonymized_text,
                   summary, requests, inferOutcome, fetchOutcome>>

Next ==
    \/ \E e \in Events : ReactionAdded(e)
    \/ FilterEmoji
    \/ ReadItem
    \/ \E o \in FetchOutcomes : FetchThread(o)
    \/ CheckEmpty
    \/ Anonymize
    \/ \E reply \in Replies : Summarize(reply)
    \/ \E opens \in BOOLEAN : WriteFile(opens)

Spec == Init /\ [][Next]_vars

(***************************************************************************)
(* anonymize_users on its own: the argument is drawn from a bounded set    *)
(* and the function is applied to it.                                      *)
(***************************************************************************)
InitCall(inputs) ==
    /\ pc = "call"
    /\ messages \in inputs
    /\ event = EmptyDict
    /\ user_mapping = EmptyMapping
    /\ cleaned_messages = <<>>
    /\ anonymized_text = <<>>
    /\ summary = <<>>
    /\ file = NoFile
    /\ calls = <<>>
    /\ requests = <<>>
    /\ inferOutcome = NoReply
    /\ fetchOutcome = NoFetch
    /\ result = "none"

\* lines 35-55: the call of anonymize_users(messages)
CallAnonymize ==
    /\ pc = "call"
    /\ user_mapping' = AnonLocals(messages).user_mapping
    /\ cleaned_messages' = AnonLocals(messages).cleaned_messages
    /\ anonymized_text' = anonymize_users(messages)
    /\ pc' = "done"
    /\ UNCHANGED <<event, messages, summary, file, calls, requests, inferOutcome,
                   fetchOutcome, result>>

\* threads of up to MaxMsgs messages; the user and the text may be missing
AnonUsers == {"U1", "U2", "Unknown"}
AnonTexts == { <<"h", "i">>, <<" ", "<", "@", "U", "2", ">", " ", "o", "k", " ">> }
AnonMsgs ==
    {u @@ t : u \in {EmptyDict} \cup {[user |-> x] : x \in AnonUsers},
              t \in {EmptyDict} \cup {[text |-> x] : x \in AnonTexts}}
\* eleven authors, and the first of them once more: labels of two digits
ManyAuthors == <<"UA", "UB", "UC", "UD", "UE", "UF", "UG", "UH", "UI", "UJ", "UK", "UA">>
LongThread == [i \in DOMAIN ManyAuthors |-> [user |-> ManyAuthors[i], text |-> <<"h", "i">>]]
AnonInputs == SeqsUpTo(AnonMsgs, MaxMsgs) \cup {ScenarioThread, LongThread}

InitAnon == InitCall(AnonInputs)
NextAnon == CallAnonymize
SpecAnon == InitAnon /\ [][NextAnon]_vars

\* one message whose text is any string of up to MaxTextLen characters
TextAlphabet == {"<", "@", "U", "W", "1", ">", " "}
TextInputs == { <<[user |-> "U1", text |-> t]>> : t \in SeqsUpTo(TextAlphabet, MaxTextLen) }

InitText == InitCall(TextInputs)
NextText == CallAnonymize
SpecText == InitText /\ [][NextText]_vars

(***************************************************************************)
(* Notions the properties are stated with.                                 *)
(***************************************************************************)
Range(f) == {f[x] : x \in DOMAIN f}

\* the author identifiers of a thread, message by message
AuthorIds(msgs) == [i \in 1..Len(msgs) |-> IF "user" \in DOMAIN msgs[i] THEN msgs[i]["user"] ELSE "Unknown"]

\* u is the k-th distinct author to appear in ids
AppearanceRank(ids, u) ==
    LET first == CHOOSE i \in 1..Len(ids) : ids[i] = u /\ \A j \in 1..(i - 1) : ids[j] # u
    IN  Cardinality({ids[j] : j \in 1..first})

\* "User k" for a k below a hundred, written out
LabelUser(k) ==
    IF k < 10 THEN <<"U", "s", "e", "r", " ", DigitChars[k + 1]>>
    ELSE <<"U", "s", "e", "r", " ", DigitChars[(k \div 10) + 1], DigitChars[(k % 10) + 1]>>

\* the text part of line i of the transcript: what follows "<label>: "
LineText(i) ==
    LET line == cleaned_messages[i]
        label == user_mapping[AuthorIds(messages)[i]]
    IN  SubSeq(line, Len(label) + 3, Len(line))

Trimmed(s) == s = <<>> \/ (s[1] \notin Whitespace /\ s[Len(s)] \notin Whitespace)

\* s[i..j] is "<@", an identifier of uppercase letters and digits, ">"
IsExplicitMention(s, i, j) ==
    /\ j - i >= 3
    /\ s[i] = "<" /\ s[i + 1] = "@" /\ s[j] = ">"
    /\ \A k \in (i + 2)..(j - 1) : s[k] \in Upper \cup Digit

HasExplicitMention(s) ==
    \E i \in 1..Len(s) : \E j \in i..Len(s) : IsExplicitMention(s, i, j)

\* the event matched, its thread was fetched and is not empty
Qualifies ==
    /\ "reaction" \in DOMAIN event /\ event["reaction"] = "bulb"
    /\ Len(calls) >= 1 /\ ~fetchOutcome.raises
    /\ "messages" \in DOMAIN fetchOutcome.response
    /\ fetchOutcome.response["messages"] # <<>>

\* the handler has ended
Ended == pc = "idle" /\ result \in {"returned", "raised"}

InferenceFailed == inferOutcome.kind \in {"raise", "bad_json", "non_object"}

RecordHead ==
    <<"O", "r", "i", "g", "i", "n", "a", "l", " ", "C", "o", "n", "v", "e", "r", "s",
      "a", "t", "i", "o", "n", ":", "\n">>
RecordMid == <<"\n", "\n", "S", "u", "m", "m", "a", "r", "y", ":", "\n">>
ErrorLiteral ==
    <<"E", "r", "r", "o", "r", " ", "g", "e", "n", "e", "r", "a", "t", "i", "n", "g",
      " ", "s", "u", "m", "m", "a", "r", "y", ".">>
FallbackLiteral ==
    <<"N", "o", " ", "s", "u", "m", "m", "a", "r", "y", " ", "a", "v", "a", "i", "l",
      "a", "b", "l", "e", ".">>
FullOrder == <<"fetch", "anonymize", "infer", "write">>

(***************************************************************************)
(* C1. When anonymize_users returns, user_mapping maps exactly the author  *)
(* identifiers of the thread, the k-th distinct author to appear has the   *)
(* label "User k", the labels used are exactly "User 1" .. "User N", and   *)
(* every line starts with the label of its author. The mapping is thereby  *)
(* a function of the input alone.                                          *)
(***************************************************************************)
C1_LabelsInFirstAppearanceOrder ==
    pc = "done" =>
        LET ids == AuthorIds(messages)
            authors == Range(ids)
            N == Cardinality(authors)
        IN  /\ DOMAIN user_mapping = authors
            /\ \A u \in authors : user_mapping[u] = LabelUser(AppearanceRank(ids, u))
            /\ {user_mapping[u] : u \in authors} = {LabelUser(k) : k \in 1..N}
            /\ Len(cleaned_messages) = Len(messages)
            /\ \A i \in 1..Len(messages) :
                   LET label == user_mapping[ids[i]]
                   IN  /\ Len(cleaned_messages[i]) >= Len(label) + 2
                       /\ SubSeq(cleaned_messages[i], 1, Len(label) + 2) = label \o <<":", " ">>

\* three messages, the first author speaks again after a second one
C1_Witness ==
    /\ pc = "done"
    /\ Len(messages) = 3
    /\ AuthorIds(messages)[1] = AuthorIds(messages)[3]
    /\ AuthorIds(messages)[2] = "Unknown"
    /\ "user" \notin DOMAIN messages[2]
    /\ user_mapping["Unknown"] = LabelUser(2)

(***************************************************************************)
(* C2. Every explicit mention ("<@", an identifier of uppercase letters    *)
(* and digits, ">") is removed from the text of a line, and a text without *)
(* such a mention is left as it is but for the whitespace at its two ends. *)
(***************************************************************************)
C2_ExplicitMentionsRemoved ==
    pc = "done" =>
        \A i \in 1..Len(messages) :
            LET raw == IF "text" \in DOMAIN messages[i] THEN messages[i]["text"] ELSE <<>>
            IN  /\ ~HasExplicitMention(LineText(i))
                /\ ~HasExplicitMention(raw) => LineText(i) = Strip(raw)

(***************************************************************************)
(* C3. The text part of every line has no whitespace at its ends, and the  *)
(* thread of the scenario yields                                           *)
(* "User 1: help, build broke\nUser 2: fixed by reverting commit".         *)
(***************************************************************************)
ScenarioTranscript ==
    <<"U", "s", "e", "r", " ", "1", ":", " ", "h", "e", "l", "p", ",", " ", "b", "u",
      "i", "l", "d", " ", "b", "r", "o", "k", "e", "\n", "U", "s", "e", "r", " ", "2",
      ":", " ", "f", "i", "x", "e", "d", " ", "b", "y", " ", "r", "e", "v", "e", "r",
      "t", "i", "n", "g", " ", "c", "o", "m", "m", "i", "t">>

C3_ScenarioTranscript ==
    pc = "done" =>
        /\ messages = ScenarioThread => anonymized_text = ScenarioTranscript
        /\ \A i \in 1..Len(messages) : Trimmed(LineText(i))

(***************************************************************************)
(* C4. The step that finds the reaction of the event to differ from the    *)
(* target emoji ends the handler by a return: no call was made, no request *)
(* was sent, and the file is left as it was.                               *)
(***************************************************************************)
C4_NonTargetNoSideEffects ==
    [][(pc = "L90" /\ ~("reaction" \in DOMAIN event /\ event["reaction"] = "bulb"))
          => (pc' = "idle" /\ result' = "returned" /\ file' = file
              /\ calls = <<>> /\ calls' = <<>> /\ requests' = <<>>)]_vars

\* a non-target reaction was ignored while the file held an earlier record
C4_Witness ==
    /\ pc = "idle" /\ result = "returned"
    /\ "reaction" \in DOMAIN event /\ event["reaction"] = "thumbsup"
    /\ calls = <<>>
    /\ file.exists

(***************************************************************************)
(* C5. When the fetched response has no messages field or an empty list of *)
(* messages, the handler returns right after the fetch: the fetch is the   *)
(* only call made, no request is sent, and no step from the dispatch of    *)
(* the event to this return changes the file.                              *)
(***************************************************************************)
C5_EmptyThreadShortCircuits ==
    [][/\ (pc = "L105" /\ ("messages" \notin DOMAIN fetchOutcome.response
                            \/ fetchOutcome.response["messages"] = <<>>))
          => (pc' = "idle" /\ result' = "returned" /\ file' = file
              /\ calls' = <<"fetch">> /\ requests' = <<>>)
       /\ pc \in {"idle", "L90", "L96", "L102", "L105"} => file' = file]_vars

\* an empty thread was fetched while the file held an earlier record
C5_Witness ==
    /\ pc = "idle" /\ result = "returned"
    /\ calls = <<"fetch">>
    /\ fetchOutcome.response \in {EmptyDict, [messages |-> <<>>]}
    /\ file.exists

(***************************************************************************)
(* C6, as claimed. After the inference call the handler goes on, and the   *)
(* summary is the content field of the response when the response is an    *)
(* object that carries one, and "Error generating summary." in every other *)
(* case, that of an object without content field included.                 *)
(***************************************************************************)
C6_AnyFailureGivesErrorLiteral ==
    pc = "L116" =>
        /\ result = "running"
        /\ summary = IF inferOutcome.kind = "object" /\ "content" \in DOMAIN inferOutcome.body
                     THEN inferOutcome.body["content"]
                     ELSE ErrorLiteral

(***************************************************************************)
(* C6, amended. After the inference call the handler goes on, and the      *)
(* summary is "Error generating summary." when the call raised or the body *)
(* is no JSON object, "No summary available." when the body is an object   *)
(* without content field, and the content field otherwise.                 *)
(***************************************************************************)
C6_FailureOrFallback ==
    pc = "L116" =>
        /\ result = "running"
        /\ inferOutcome.kind \in {"raise", "bad_json", "non_object"} => summary = ErrorLiteral
        /\ (inferOutcome.kind = "object" /\ "content" \notin DOMAIN inferOutcome.body)
               => summary = FallbackLiteral
        /\ (inferOutcome.kind = "object" /\ "content" \in DOMAIN inferOutcome.body)
               => summary = inferOutcome.body["content"]

\* the response was an object without content field
C6_Witness ==
    /\ pc = "L116"
    /\ inferOutcome = [kind |-> "object", body |-> EmptyDict]
    /\ summary = FallbackLiteral

(***************************************************************************)
(* C7. When the inference call raised or its body was no JSON object, the  *)
(* handler goes on to the write with "Error generating summary." as the    *)
(* summary, and once the write is done the file is exactly                 *)
(* "Original Conversation:\n", the anonymized transcript of the fetched    *)
(* thread, "\n\nSummary:\n" and that literal.                              *)
(***************************************************************************)
C7_FailedInferenceStillWritten ==
    /\ (pc = "L116" /\ InferenceFailed)
           => (result = "running" /\ summary = ErrorLiteral)
    /\ (pc = "idle" /\ result = "returned" /\ InferenceFailed)
           => /\ Qualifies
              /\ file = [exists |-> TRUE,
                         content |-> RecordHead \o anonymize_users(fetchOutcome.response["messages"])
                                         \o RecordMid \o ErrorLiteral]

\* the inference call raised, and the file was written over an earlier record
C7_Witness ==
    /\ pc = "idle" /\ result = "returned"
    /\ inferOutcome.kind = "raise"
    /\ Len(messages) = 2
    /\ file.exists
    /\ Len(file.content) > Len(RecordHead) + Len(RecordMid) + Len(ErrorLiteral)

(***************************************************************************)
(* C8. No exception leaves handle_reaction.                                *)
(***************************************************************************)
C8_NoExceptionPropagates == result # "raised"

C10_StepsInOrderOnce ==
    /\ Len(calls) <= 4 /\ calls = SubSeq(FullOrder, 1, Len(calls))
    /\ Len(requests) <= 1
    /\ Len(requests) = 1 => Len(calls) >= 3
    /\ (Ended /\ Qualifies)
           => /\ calls = FullOrder
              /\ Len(requests) = 1
              /\ requests[1].conversation =
                     <<"C", "o", "n", "v", "e", "r", "s", "a", "t", "i", "o", "n", ":", "\n">>
                         \o anonymize_users(fetchOutcome.response["messages"])

\* the scenario thread went through all four steps
C10_Witness ==
    /\ Ended /\ Qualifies
    /\ messages = ScenarioThread
    /\ calls = FullOrder
    /\ inferOutcome.kind = "object"

=============================================================================
